---- MODULE Spec2Model ----
(***************************************************************************)
(* The symbol table of the plugin framework                                *)
(* (packages/plugin-framework/src/symbol-table.ts): a list of entries      *)
(* {file, descriptor, kind, name}, filled by register() and read by        *)
(* find(), get(), has() and list().                                        *)
(*                                                                         *)
(* Names are strings.  Descriptors and files are opaque handles compared   *)
(* by identity, modelled as distinct strings.                              *)
(***************************************************************************)
EXTENDS Integers, Sequences, FiniteSets, TLC

VARIABLES
    entries,        \* SymbolTable.entries, in registration order
    clashResolver,  \* SymbolTable.clashResolver, fixed by the constructor
    last,           \* the last call made on the table, its arguments and its outcome
    threads,        \* per thread, the register call it is in and the line it is at
    lock,           \* the thread that holds the lock of the table, or "free"
    locking         \* whether a register call holds the lock of the table

vars == <<entries, clashResolver, last, threads, lock, locking>>

----------------------------------------------------------------------------
(* Bounds and input sets *)

\* register() is not called any more once the table holds this many entries.
MaxEntries == 3

Descriptors == {"d1", "d2"}
Files == {"fileX", "fileY"}
Kinds == {"default", "class"}
RequestedNames == {"Foo", "Foo$"}

\* The resolvers a table is constructed with: the built-in one and two
\* caller-supplied ones.
Resolvers == {"default", "stuck", "underscore"}

----------------------------------------------------------------------------
(* Program constants and values *)

clashResolveMaxTries == 100

\* What Array.prototype.find returns when nothing matches.
undefined == [undefined |-> TRUE]

----------------------------------------------------------------------------
(* String helpers of the JavaScript runtime *)

\* String.prototype.endsWith
endsWith(s, suffix) ==
    /\ Len(s) >= Len(suffix)
    /\ SubSeq(s, Len(s) - Len(suffix) + 1, Len(s)) = suffix

\* String.prototype.substring(start): the string without its first
\* `start` characters.
substring(s, start) ==
    IF start >= Len(s) THEN "" ELSE SubSeq(s, start + 1, Len(s))

----------------------------------------------------------------------------
(* The clash resolvers *)

\* Faulty variant: numbers the tries from 0.
defaultClashResolver_ZeroBased(descriptor, file, requestedName, kind, tryCount) ==
    LET n == IF endsWith(requestedName, "$")
             THEN substring(requestedName, 1)
             ELSE requestedName
    IN  n \o "$" \o ToString(tryCount - 1)

\* SymbolTable.defaultClashResolver
defaultClashResolver(descriptor, file, requestedName, kind, tryCount) ==
    LET n == IF endsWith(requestedName, "$")
             THEN substring(requestedName, 1)
             ELSE requestedName
    IN  n \o "$" \o ToString(tryCount)

\* A caller-supplied resolver that hands back the name that just failed.
stuckClashResolver(descriptor, file, requestedName, kind, tryCount, failedName) ==
    failedName

\* A caller-supplied resolver that lengthens the name that just failed.
underscoreClashResolver(descriptor, file, requestedName, kind, tryCount, failedName) ==
    failedName \o "_"

\* A caller-supplied resolver that hands back the name that just failed on
\* the tries 1 to 99 and a longer name from try 100 on.
lastTryClashResolver(descriptor, file, requestedName, kind, tryCount, failedName) ==
    IF tryCount < 100 THEN failedName ELSE failedName \o "_"

\* this.clashResolver(descriptor, file, requestedName, kind, tryCount, failedName)
callClashResolver(resolver, descriptor, file, requestedName, kind, tryCount, failedName) ==
    CASE resolver = "default" ->
            defaultClashResolver(descriptor, file, requestedName, kind, tryCount)
      [] resolver = "stuck" ->
            stuckClashResolver(descriptor, file, requestedName, kind, tryCount, failedName)
      [] resolver = "underscore" ->
            underscoreClashResolver(descriptor, file, requestedName, kind, tryCount, failedName)
      [] resolver = "lastTry" ->
            lastTryClashResolver(descriptor, file, requestedName, kind, tryCount, failedName)

----------------------------------------------------------------------------
(* Lookups *)

\* Faulty variant: sees only the entries of the default kind.
hasNameInFile_PerKind(es, name, file) ==
    \E i \in 1..Len(es) :
        es[i].file = file /\ es[i].name = name /\ es[i].kind = "default"

\* this.entries.some(e => e.file === file && e.name === name)
hasNameInFile(es, name, file) ==
    \E i \in 1..Len(es) : es[i].file = file /\ es[i].name = name

\* this.entries.find(e => e.descriptor === descriptor && e.kind === kind):
\* the first match in registration order.
find(es, descriptor, kind) ==
    LET matches == {i \in 1..Len(es) :
                        es[i].descriptor = descriptor /\ es[i].kind = kind}
    IN  IF matches = {}
        THEN undefined
        ELSE es[CHOOSE i \in matches : \A j \in matches : i <= j]

\* has(descriptor, b = 'default', kind = 'default'): b is not read.
has(es, descriptor, b, kind) ==
    find(es, descriptor, kind) # undefined

\* A call has(descriptor, x) with two arguments: x binds to b and kind
\* takes its default.
has2(es, descriptor, b) ==
    has(es, descriptor, b, "default")

\* Faulty variant: counts a file once per entry.
distinctFiles_NoDedupe(es) ==
    Len(es)

\* The files of the entries, each once: map(e => e.file) filtered to the
\* first occurrence of each value.
distinctFiles(es) ==
    LET files == [i \in 1..Len(es) |-> es[i].file]
        indexOf(v) == CHOOSE i \in 1..Len(files) :
                          files[i] = v /\ \A j \in 1..(i - 1) : files[j] # v
        keep == {i \in 1..Len(files) : indexOf(files[i]) = i}
    IN  Cardinality(keep)

\* get(descriptor, kind): the entry, or the error thrown at line 88.
get(es, descriptor, kind) ==
    LET found == find(es, descriptor, kind)
    IN  IF found = undefined
        THEN [ok |-> FALSE, error |-> "SymbolNotFound", files |-> distinctFiles(es)]
        ELSE [ok |-> TRUE, entry |-> found]

\* A call has(descriptor, file, kind) with three arguments.
has3(es, descriptor, file, kind) ==
    has(es, descriptor, file, kind)

\* Faulty variant: the entries come out last registered first.
listFile_Reversed(es, file) ==
    LET idx == {i \in 1..Len(es) : es[i].file = file}
        nth(n) == CHOOSE i \in idx : Cardinality({j \in idx : j >= i}) = n
    IN  [n \in 1..Cardinality(idx) |-> es[nth(n)]]

\* this.entries.filter(e => e.file === file), line 120
listFile(es, file) ==
    SelectSeq(es, LAMBDA e : e.file = file)

\* list(file): kind is undefined and line 122 is skipped.
list1(es, file) ==
    listFile(es, file)

\* list(file, kind)
list2(es, file, kind) ==
    SelectSeq(listFile(es, file), LAMBDA e : e.kind = kind)

----------------------------------------------------------------------------
(* register *)

\* Faulty variant: the loop condition reads count <= clashResolveMaxTries.
resolveLoop_OneTryTooMany(es, resolver, descriptor, file, requestedName, kind, name0, count0) ==
    LET loop[st \in [name : STRING, count : Nat, tries : Seq(Nat),
                     names : Seq(STRING)]] ==
            IF hasNameInFile(es, st.name, file) /\ st.count <= clashResolveMaxTries
            THEN loop[[name |-> callClashResolver(resolver, descriptor, file,
                                                  requestedName, kind,
                                                  st.count + 1, st.name),
                       count |-> st.count + 1,
                       tries |-> Append(st.tries, st.count + 1),
                       names |-> Append(st.names, st.name)]]
            ELSE [name |-> st.name, count |-> st.count,
                  calls |-> [i \in 1..Len(st.tries) |->
                               [descriptor |-> descriptor, file |-> file,
                                requestedName |-> requestedName, kind |-> kind,
                                tryCount |-> st.tries[i],
                                failedName |-> st.names[i]]]]
    IN  loop[[name |-> name0, count |-> count0, tries |-> <<>>, names |-> <<>>]]

\* Faulty variant: the resolver is handed count++ instead of ++count.
resolveLoop_PostIncrement(es, resolver, descriptor, file, requestedName, kind, name0, count0) ==
    LET loop[st \in [name : STRING, count : Nat, tries : Seq(Nat),
                     names : Seq(STRING)]] ==
            IF hasNameInFile(es, st.name, file) /\ st.count < clashResolveMaxTries
            THEN loop[[name |-> callClashResolver(resolver, descriptor, file,
                                                  requestedName, kind,
                                                  st.count, st.name),
                       count |-> st.count + 1,
                       tries |-> Append(st.tries, st.count),
                       names |-> Append(st.names, st.name)]]
            ELSE [name |-> st.name, count |-> st.count,
                  calls |-> [i \in 1..Len(st.tries) |->
                               [descriptor |-> descriptor, file |-> file,
                                requestedName |-> requestedName, kind |-> kind,
                                tryCount |-> st.tries[i],
                                failedName |-> st.names[i]]]]
    IN  loop[[name |-> name0, count |-> count0, tries |-> <<>>, names |-> <<>>]]

\* The while loop of register: from the name and count it is entered with
\* to the values it exits with.  Each round is one resolver call; calls
\* lists the arguments of each, in the order made (tries and names are the
\* try counts and the failed names handed over so far).
resolveLoop(es, resolver, descriptor, file, requestedName, kind, name0, count0) ==
    LET loop[st \in [name : STRING, count : Nat, tries : Seq(Nat),
                     names : Seq(STRING)]] ==
            IF hasNameInFile(es, st.name, file) /\ st.count < clashResolveMaxTries
            THEN loop[[name |-> callClashResolver(resolver, descriptor, file,
                                                  requestedName, kind,
                                                  st.count + 1, st.name),
                       count |-> st.count + 1,
                       tries |-> Append(st.tries, st.count + 1),
                       names |-> Append(st.names, st.name)]]
            ELSE [name |-> st.name, count |-> st.count,
                  calls |-> [i \in 1..Len(st.tries) |->
                               [descriptor |-> descriptor, file |-> file,
                                requestedName |-> requestedName, kind |-> kind,
                                tryCount |-> st.tries[i],
                                failedName |-> st.names[i]]]]
    IN  loop[[name |-> name0, count |-> count0, tries |-> <<>>, names |-> <<>>]]

\* Faulty variant: adds the entry at the front.
push_Unshift(es, e) == <<e>> \o es

\* this.entries.push(e)
push(es, e) == Append(es, e)

\* Faulty variant: the entry is added before line 55 tests the name.
register_PushesBeforeCheck(es, resolver, requestedName, descriptor, file, kind) ==
    LET afterLoop[l \in [name : STRING, count : Nat]] ==
            LET pushed == push(es, [file |-> file, descriptor |-> descriptor,
                                    kind |-> kind, name |-> l.name])
            IN  IF hasNameInFile(es, l.name, file)
                THEN [entries |-> pushed, outcome |-> "ClashResolutionExhausted",
                      name |-> "", count |-> l.count]
                ELSE [entries |-> pushed, outcome |-> "ok", name |-> l.name,
                      count |-> l.count]
        exit == resolveLoop(es, resolver, descriptor, file, requestedName, kind,
                            requestedName, 0)
    IN  IF has2(es, descriptor, kind)
        THEN [entries |-> es,
              outcome |-> IF get(es, descriptor, kind).ok
                          THEN "DuplicateRegistration" ELSE "SymbolNotFound",
              name |-> "", count |-> 0]
        ELSE afterLoop[[name |-> exit.name, count |-> exit.count]]

\* Faulty variant: line 55 gives up once the try budget is used, whether
\* or not the last answer is free.
register_GivesUpByCount(es, resolver, requestedName, descriptor, file, kind) ==
    LET afterLoop[l \in [name : STRING, count : Nat]] ==
            IF hasNameInFile(es, l.name, file) \/ l.count >= clashResolveMaxTries
            THEN [entries |-> es, outcome |-> "ClashResolutionExhausted",
                  name |-> "", count |-> l.count]
            ELSE [entries |-> push(es, [file |-> file, descriptor |-> descriptor,
                                        kind |-> kind, name |-> l.name]),
                  outcome |-> "ok", name |-> l.name, count |-> l.count]
        exit == resolveLoop(es, resolver, descriptor, file, requestedName, kind,
                            requestedName, 0)
    IN  IF has2(es, descriptor, kind)
        THEN [entries |-> es,
              outcome |-> IF get(es, descriptor, kind).ok
                          THEN "DuplicateRegistration" ELSE "SymbolNotFound",
              name |-> "", count |-> 0]
        ELSE afterLoop[[name |-> exit.name, count |-> exit.count]]

\* register(requestedName, descriptor, file, kind) on a table holding es:
\* the entries afterwards, the outcome ("ok" or the error thrown), the name
\* returned and the number of resolver invocations made.
register(es, resolver, requestedName, descriptor, file, kind) ==
    LET \* lines 55-64, with the name and count the loop exited with
        afterLoop[l \in [name : STRING, count : Nat]] ==
            IF hasNameInFile(es, l.name, file)
            THEN [entries |-> es, outcome |-> "ClashResolutionExhausted",
                  name |-> "", count |-> l.count]
            ELSE [entries |-> push(es, [file |-> file, descriptor |-> descriptor,
                                        kind |-> kind, name |-> l.name]),
                  outcome |-> "ok", name |-> l.name, count |-> l.count]
        exit == resolveLoop(es, resolver, descriptor, file, requestedName, kind,
                            requestedName, 0)
    IN  IF has2(es, descriptor, kind)
        THEN \* lines 42-46: get() either throws or feeds the error message
             LET g == get(es, descriptor, kind)
             IN  [entries |-> es,
                  outcome |-> IF g.ok THEN "DuplicateRegistration" ELSE g.error,
                  name |-> "", count |-> 0]
        ELSE afterLoop[[name |-> exit.name, count |-> exit.count]]

----------------------------------------------------------------------------
(* The state machine *)

Threads == {"t1", "t2"}

\* A thread that is not inside a call.
idle == [pc |-> "idle"]

\* One caller makes the calls one after the other, each completing before
\* the next begins: no thread is ever inside a call.
Sequential ==
    /\ threads = [t \in Threads |-> idle]
    /\ lock = "free"
    /\ locking = FALSE

\* new SymbolTable(clashResolver?)
Init ==
    /\ entries = <<>>
    /\ clashResolver \in Resolvers
    /\ last = [op |-> "constructor"]
    /\ Sequential

Register(requestedName, descriptor, file, kind) ==
    /\ Len(entries) < MaxEntries
    /\ \E r \in {register(entries, clashResolver, requestedName, descriptor, file, kind)} :
           /\ entries' = r.entries
           /\ last' = [op |-> "register", requestedName |-> requestedName,
                       descriptor |-> descriptor, file |-> file, kind |-> kind,
                       outcome |-> r.outcome, name |-> r.name, count |-> r.count]
    /\ UNCHANGED <<clashResolver, threads, lock, locking>>

Next ==
    \E requestedName \in RequestedNames, descriptor \in Descriptors,
       file \in Files, kind \in Kinds :
        Register(requestedName, descriptor, file, kind)

Spec == Init /\ [][Next]_vars

\* The same table, constructed without a resolver (so with the default one)
\* and asked for names among which one already carries a numbered suffix.
NamingNames == {"Foo", "Foo$1"}

InitNaming ==
    /\ entries = <<>>
    /\ clashResolver = "default"
    /\ last = [op |-> "constructor"]
    /\ Sequential

NextNaming ==
    \E requestedName \in NamingNames, descriptor \in Descriptors,
       file \in Files, kind \in Kinds :
        Register(requestedName, descriptor, file, kind)

SpecNaming == InitNaming /\ [][NextNaming]_vars

\* The table with its lookups: constructed without a resolver, filled by
\* register and read by find, get, has and list between the registrations.
LookupNames == {"Foo"}

Find(descriptor, kind) ==
    /\ last' = [op |-> "find", descriptor |-> descriptor, kind |-> kind,
                result |-> find(entries, descriptor, kind)]
    /\ entries' = entries
    /\ UNCHANGED <<clashResolver, threads, lock, locking>>

Get(descriptor, kind) ==
    /\ last' = [op |-> "get", descriptor |-> descriptor, kind |-> kind,
                result |-> get(entries, descriptor, kind)]
    /\ entries' = entries
    /\ UNCHANGED <<clashResolver, threads, lock, locking>>

\* has(descriptor, kind)
Has2(descriptor, kind) ==
    /\ last' = [op |-> "has2", descriptor |-> descriptor, kind |-> kind,
                result |-> has2(entries, descriptor, kind)]
    /\ entries' = entries
    /\ UNCHANGED <<clashResolver, threads, lock, locking>>

\* has(descriptor, file, kind)
Has3(descriptor, file, kind) ==
    /\ last' = [op |-> "has3", descriptor |-> descriptor, file |-> file,
                kind |-> kind, result |-> has3(entries, descriptor, file, kind)]
    /\ entries' = entries
    /\ UNCHANGED <<clashResolver, threads, lock, locking>>

\* list(file)
List1(file) ==
    /\ last' = [op |-> "list1", file |-> file, result |-> list1(entries, file)]
    /\ entries' = entries
    /\ UNCHANGED <<clashResolver, threads, lock, locking>>

\* Faulty variant: filters this.entries itself.
List2_InPlace(file, kind) ==
    /\ last' = [op |-> "list2", file |-> file, kind |-> kind,
                result |-> list2(entries, file, kind)]
    /\ entries' = list2(entries, file, kind)
    /\ UNCHANGED <<clashResolver, threads, lock, locking>>

\* list(file, kind)
List2(file, kind) ==
    /\ last' = [op |-> "list2", file |-> file, kind |-> kind,
                result |-> list2(entries, file, kind)]
    /\ entries' = entries
    /\ UNCHANGED <<clashResolver, threads, lock, locking>>

NextLookup ==
    \/ \E requestedName \in LookupNames, descriptor \in Descriptors,
          file \in Files, kind \in Kinds :
           Register(requestedName, descriptor, file, kind)
    \/ \E descriptor \in Descriptors, kind \in Kinds : Find(descriptor, kind)
    \/ \E descriptor \in Descriptors, kind \in Kinds : Get(descriptor, kind)
    \/ \E descriptor \in Descriptors, kind \in Kinds : Has2(descriptor, kind)
    \/ \E descriptor \in Descriptors, file \in Files, kind \in Kinds :
           Has3(descriptor, file, kind)
    \/ \E file \in Files : List1(file)
    \/ \E file \in Files, kind \in Kinds : List2(file, kind)

SpecLookup == InitNaming /\ [][NextLookup]_vars

\* The table constructed with a caller-supplied resolver whose answer
\* depends on the failed name or on the try count.
TriesResolvers == {"underscore", "lastTry"}

TriesNames == {"Foo"}

InitTries ==
    /\ entries = <<>>
    /\ clashResolver \in TriesResolvers
    /\ last = [op |-> "constructor"]
    /\ Sequential

NextTries ==
    \E requestedName \in TriesNames, descriptor \in Descriptors,
       file \in Files, kind \in Kinds :
        Register(requestedName, descriptor, file, kind)

SpecTries == InitTries /\ [][NextTries]_vars

----------------------------------------------------------------------------
(* register called from two threads.  A call is cut at the places where it *)
(* reads or writes this.entries: the guard of line 41, each test of the    *)
(* loop at line 52, the test of line 55 and the push of line 63.  With     *)
(* locking, a call takes the lock of the table before line 41 and gives it *)
(* back when it returns or throws.                                         *)

\* register() is not entered any more once the table holds this many
\* entries.
MaxConcEntries == 2

ConcNames == {"Foo"}
ConcFiles == {"fileX", "fileY"}

\* The lock is free for thread t to take, or not asked for.
CanEnter(t) == locking => lock = "free"

\* The lock after thread t took it, and after thread t gave it back.
Taken(t) == IF locking THEN t ELSE lock
Released(t) == IF locking THEN "free" ELSE lock

InitConc ==
    /\ entries = <<>>
    /\ clashResolver = "default"
    /\ last = [op |-> "constructor"]
    /\ threads = [t \in Threads |-> idle]
    /\ lock = "free"
    /\ locking \in BOOLEAN

\* Lines 38-51: the call is entered, the guard of line 41 is tested and,
\* when it does not throw, name and count are set.
ThreadBegin(t, requestedName, descriptor, file, kind) ==
    /\ threads[t].pc = "idle"
    /\ Len(entries) < MaxConcEntries
    /\ CanEnter(t)
    /\ IF has2(entries, descriptor, kind)
       THEN UNCHANGED <<threads, lock>>
       ELSE /\ threads' = [threads EXCEPT ![t] =
                             [pc |-> "loop", requestedName |-> requestedName,
                              descriptor |-> descriptor, file |-> file,
                              kind |-> kind, name |-> requestedName, count |-> 0]]
            /\ lock' = Taken(t)
    /\ UNCHANGED <<entries, clashResolver, last, locking>>

\* Lines 52-54: one test of the loop condition and, when it holds, one
\* resolver call.
ThreadLoop(t) ==
    /\ threads[t].pc = "loop"
    /\ \E c \in {threads[t]} :
          threads' = [threads EXCEPT ![t] =
              IF hasNameInFile(entries, c.name, c.file)
                 /\ c.count < clashResolveMaxTries
              THEN [c EXCEPT !.name = callClashResolver(clashResolver, c.descriptor,
                                                        c.file, c.requestedName,
                                                        c.kind, c.count + 1, c.name),
                             !.count = c.count + 1]
              ELSE [c EXCEPT !.pc = "check"]]
    /\ UNCHANGED <<entries, clashResolver, last, lock, locking>>

\* Faulty variant: the lock is given back once line 55 found the name free.
ThreadCheck_ReleasesLock(t) ==
    /\ threads[t].pc = "check"
    /\ IF hasNameInFile(entries, threads[t].name, threads[t].file)
       THEN threads' = [threads EXCEPT ![t] = idle]
       ELSE threads' = [threads EXCEPT ![t].pc = "push"]
    /\ lock' = Released(t)
    /\ UNCHANGED <<entries, clashResolver, last, locking>>

\* Lines 55-60: the test after the loop; the call throws when the name is
\* taken.
ThreadCheck(t) ==
    /\ threads[t].pc = "check"
    /\ IF hasNameInFile(entries, threads[t].name, threads[t].file)
       THEN /\ threads' = [threads EXCEPT ![t] = idle]
            /\ lock' = Released(t)
       ELSE /\ threads' = [threads EXCEPT ![t].pc = "push"]
            /\ UNCHANGED lock
    /\ UNCHANGED <<entries, clashResolver, last, locking>>

\* Lines 63-64: the entry is added and the call returns.
ThreadPush(t) ==
    /\ threads[t].pc = "push"
    /\ entries' = push(entries, [file |-> threads[t].file,
                                 descriptor |-> threads[t].descriptor,
                                 kind |-> threads[t].kind,
                                 name |-> threads[t].name])
    /\ threads' = [threads EXCEPT ![t] = idle]
    /\ lock' = Released(t)
    /\ UNCHANGED <<clashResolver, last, locking>>

NextConc ==
    \/ \E t \in Threads, requestedName \in ConcNames, descriptor \in Descriptors,
          file \in ConcFiles, kind \in Kinds :
           ThreadBegin(t, requestedName, descriptor, file, kind)
    \/ \E t \in Threads : ThreadLoop(t)
    \/ \E t \in Threads : ThreadCheck(t)
    \/ \E t \in Threads : ThreadPush(t)

SpecConc == InitConc /\ [][NextConc]_vars

----------------------------------------------------------------------------
(* Properties.  In an action property the unprimed entries are the table  *)
(* before the call and last' holds the call and its outcome.              *)

IsRegister(l) == l.op = "register"

\* The call was not rejected at lines 41-47, so it went on to look for a
\* free name.
ReachedResolution(l) ==
    IsRegister(l) /\ l.outcome \in {"ok", "ClashResolutionExhausted"}

\* C1 (I2, file uniqueness): no two distinct entries of the table have the
\* same file and the same name, whatever their kinds and descriptors.
C1_FileUniqueness ==
    \A i, j \in 1..Len(entries) :
        (i # j) => ~(entries[i].file = entries[j].file
                     /\ entries[i].name = entries[j].name)

\* A clash was met and resolved: the last call succeeded after at least one
\* resolver invocation, in a file that holds entries of both kinds.
C1_Witness ==
    /\ IsRegister(last) /\ last.outcome = "ok" /\ last.count >= 1
    /\ \E i, j \in 1..Len(entries) :
          /\ entries[i].file = last.file /\ entries[j].file = last.file
          /\ entries[i].kind # entries[j].kind

\* C2 (I1, entity uniqueness): at most one entry exists for any
\* (descriptor, kind) pair, for every kind and regardless of file.
C2_EntityUniqueness ==
    \A i, j \in 1..Len(entries) :
        (i # j) => ~(entries[i].descriptor = entries[j].descriptor
                     /\ entries[i].kind = entries[j].kind)

\* C3: a register call for a (descriptor, kind) that already has an entry
\* fails with DuplicateRegistration, whatever its file and requested name,
\* and without any resolver invocation.
C3_DuplicateRejected ==
    [][(IsRegister(last')
        /\ find(entries, last'.descriptor, last'.kind) # undefined)
       => (last'.outcome = "DuplicateRegistration" /\ last'.count = 0)]_vars

\* C4: a register call for a (descriptor, kind) that has no entry fails
\* neither with DuplicateRegistration nor with SymbolNotFound, also when the
\* descriptor has entries of other kinds.
C4_OtherKindAccepted ==
    [][(IsRegister(last')
        /\ find(entries, last'.descriptor, last'.kind) = undefined)
       => last'.outcome \notin {"DuplicateRegistration", "SymbolNotFound"}]_vars

\* C5: register is all-or-nothing.  A successful call appends exactly one
\* entry, made of the call's file, descriptor and kind and of the returned
\* name; a failing call leaves the entry list as it was.
C5_AllOrNothing ==
    [][IsRegister(last') =>
        IF last'.outcome = "ok"
        THEN entries' = Append(entries, [file |-> last'.file,
                                         descriptor |-> last'.descriptor,
                                         kind |-> last'.kind,
                                         name |-> last'.name])
        ELSE entries' = entries]_vars

\* A call failed with ClashResolutionExhausted on a table that holds
\* entries, after another call had succeeded.
C5_Witness ==
    /\ IsRegister(last) /\ last.outcome = "ClashResolutionExhausted"
    /\ Len(entries) >= 2

\* C6: the table is append-only: the entry list before a step is a prefix
\* of the entry list after it.
C6_AppendOnly ==
    [][/\ Len(entries') >= Len(entries)
       /\ SubSeq(entries', 1, Len(entries)) = entries]_vars

\* The table grew entry by entry to three entries that differ.
C6_Witness ==
    /\ Len(entries) >= 3
    /\ entries[1] # entries[2] /\ entries[2] # entries[3]

\* C7 (round trip): right after a successful register(n, d, f, k) that
\* returned name, find(d, k) is an entry with that name and file f.
C7_RoundTrip ==
    (IsRegister(last) /\ last.outcome = "ok") =>
        LET e == find(entries, last.descriptor, last.kind)
        IN  e # undefined /\ e.name = last.name /\ e.file = last.file

\* The requested name is taken in the file and so is the resolver's answer
\* on each of the tries 1..clashResolveMaxTries, every try being handed the
\* answer of the try before it (the requested name on try 1).
AllTriesTaken(es, resolver, l) ==
    LET taken[st \in [name : STRING, try : Nat]] ==
            /\ hasNameInFile(es, st.name, l.file)
            /\ \/ st.try = clashResolveMaxTries
               \/ taken[[name |-> callClashResolver(resolver, l.descriptor, l.file,
                                                    l.requestedName, l.kind,
                                                    st.try + 1, st.name),
                          try |-> st.try + 1]]
    IN  taken[[name |-> l.requestedName, try |-> 0]]

Suffixed(n, k) == n \o "$" \o ToString(k)

C10_TrailingSeparatorStripped ==
    (IsRegister(last) /\ last.outcome = "ok" /\ last.count >= 1
     /\ clashResolver = "default" /\ endsWith(last.requestedName, "$")) =>
        last.name = Suffixed(SubSeq(last.requestedName, 1,
                                    Len(last.requestedName) - 1),
                             last.count)

\* C11: has(descriptor, kind) is true exactly when find(descriptor, kind)
\* returns an entry, for every kind passed as the second argument.
C11_HasKindMatchesFind ==
    (last.op = "has2") =>
        (last.result <=> (find(entries, last.descriptor, last.kind) # undefined))

\* C12: has(descriptor, file, kind) is true exactly when an entry for
\* (descriptor, kind) exists in the given file; it is false when the
\* descriptor is registered under that kind only in another file.
C12_HasInFile ==
    (last.op = "has3") =>
        (last.result <=>
            \E i \in 1..Len(entries) :
                /\ entries[i].descriptor = last.descriptor
                /\ entries[i].kind = last.kind
                /\ entries[i].file = last.file)

\* C13: get(descriptor, kind) returns the entry find(descriptor, kind)
\* returns when there is one; otherwise it fails with SymbolNotFound and
\* reports the number of distinct files that hold at least one entry.
C13_GetMatchesFind ==
    (last.op = "get") =>
        LET found == find(entries, last.descriptor, last.kind)
        IN  IF found # undefined
            THEN last.result.ok /\ last.result.entry = found
            ELSE /\ ~last.result.ok
                 /\ last.result.error = "SymbolNotFound"
                 /\ last.result.files =
                        Cardinality({entries[i].file : i \in 1..Len(entries)})

\* get failed on a table whose three entries lie in two files.
C13_Witness ==
    /\ last.op = "get" /\ ~last.result.ok /\ last.result.files = 2
    /\ Len(entries) >= 3

\* The entries of es at the indices idx, in increasing order of index.
EntriesAt(es, idx) ==
    LET nth(n) == CHOOSE i \in idx : Cardinality({j \in idx : j <= i}) = n
    IN  [n \in 1..Cardinality(idx) |-> es[nth(n)]]

\* C14: list(f) is the entries whose file is f, in registration order;
\* list(f, k) is those of them whose kind is k, in the same order.
C14_ListOrderAndFilter ==
    /\ (last.op = "list1") =>
          last.result = EntriesAt(entries, {i \in 1..Len(entries) :
                                              entries[i].file = last.file})
    /\ (last.op = "list2") =>
          last.result = EntriesAt(entries, {i \in 1..Len(entries) :
                                              /\ entries[i].file = last.file
                                              /\ entries[i].kind = last.kind})

\* list(f) returned two entries of different kinds while another file holds
\* an entry registered between them.
C14_Witness ==
    /\ last.op = "list1" /\ Len(last.result) = 2 /\ Len(entries) = 3
    /\ last.result[1].kind # last.result[2].kind
    /\ entries[2].file # last.file

\* C15: find, get (also when it fails), has and list leave the entry list
\* unchanged.
C15_LookupsReadOnly ==
    [][(last'.op \in {"find", "get", "has2", "has3", "list1", "list2"})
       => entries' = entries]_vars

\* list(f, k) left out entries of a table and the table still holds them.
C15_Witness ==
    /\ last.op = "list2" /\ Len(last.result) < Len(entries)

\* The resolver invocations of the register call l on the table es: none
\* when the call is rejected at lines 41-47, else those of the while loop.
ResolverCalls(es, resolver, l) ==
    IF ReachedResolution(l)
    THEN resolveLoop(es, resolver, l.descriptor, l.file, l.requestedName,
                     l.kind, l.requestedName, 0).calls
    ELSE <<>>

\* C17: within one register call the resolver is invoked with the try
\* counts 1, 2, 3, ... in this order, each time with the requestedName,
\* descriptor, file and kind of the call and with the candidate that was
\* just found taken as failedName: the requested name on try 1, the
\* resolver's previous answer on later tries.
C17_ResolverCallSequence ==
    [][IsRegister(last') =>
        \A calls \in {ResolverCalls(entries, clashResolver, last')} :
            /\ Len(calls) = last'.count
            /\ \A i \in 1..Len(calls) :
                  /\ calls[i].tryCount = i
                  /\ calls[i].requestedName = last'.requestedName
                  /\ calls[i].descriptor = last'.descriptor
                  /\ calls[i].file = last'.file
                  /\ calls[i].kind = last'.kind
                  /\ hasNameInFile(entries, calls[i].failedName, last'.file)
                  /\ calls[i].failedName =
                        IF i = 1
                        THEN last'.requestedName
                        ELSE callClashResolver(clashResolver, last'.descriptor,
                                               last'.file, last'.requestedName,
                                               last'.kind, i - 1,
                                               calls[i - 1].failedName)]_vars

\* A call needed two tries with a resolver whose answers differ from the
\* requested name.
C17_Witness ==
    /\ IsRegister(last) /\ last.outcome = "ok" /\ last.count = 2
    /\ clashResolver = "underscore" /\ last.name = "Foo__"

\* The first candidate of the register call l that is free in the file on
\* the table es, with the try that produced it (try 0 is the requested
\* name); try 101 when the requested name and the answers of the tries 1
\* to 100 are all taken.
FirstFree(es, resolver, l) ==
    LET walk[st \in [name : STRING, try : Nat]] ==
            IF ~hasNameInFile(es, st.name, l.file)
            THEN st
            ELSE IF st.try = 100
            THEN [name |-> st.name, try |-> 101]
            ELSE walk[[name |-> callClashResolver(resolver, l.descriptor, l.file,
                                                  l.requestedName, l.kind,
                                                  st.try + 1, st.name),
                       try |-> st.try + 1]]
    IN  walk[[name |-> l.requestedName, try |-> 0]]

C20_NameScopedToFile ==
    [][IsRegister(last') =>
        ((last'.outcome = "ok" /\ last'.name = last'.requestedName
          /\ last'.count = 0)
         <=>
         (/\ ~\E i \in 1..Len(entries) :
                 /\ entries[i].file = last'.file
                 /\ entries[i].name = last'.requestedName
          /\ ~\E i \in 1..Len(entries) :
                 /\ entries[i].descriptor = last'.descriptor
                 /\ entries[i].kind = last'.kind))]_vars

\* C19: when every register call runs under the lock of the table, no two
\* entries ever share a file and a name, although the test of the name and
\* the push are separate steps.  (Without the lock the two steps of two
\* calls interleave and such a state is reached: C19_Witness.)
C19_LockKeepsFileUniqueness ==
    locking => C1_FileUniqueness

\* Without the lock, two calls for one file and one requested name both
\* found the name free and both added it.
C19_Witness ==
    /\ ~locking
    /\ \E i, j \in 1..Len(entries) :
          /\ i # j
          /\ entries[i].file = entries[j].file
          /\ entries[i].name = entries[j].name

====
